---- MODULE Spec2Model ----
(***************************************************************************)
(* Model of Application/file_structure_explorer.py: the Folder node, the   *)
(* FolderTree built from a directory or from a JSON document, its JSON     *)
(* export, its LaTeX tree and its label buffers.                           *)
(*                                                                         *)
(* Python strings whose characters matter (names, ids, rendered text) are  *)
(* sequences of one-character strings; "" is <<>>.  label_type is only     *)
(* compared for equality and truthiness and is a TLA+ string.  Folder      *)
(* objects live in a heap (a sequence of records); a reference is an index *)
(* into it and None is 0.                                                  *)
(***************************************************************************)
EXTENDS Integers, Sequences, FiniteSets, TLC

VARIABLES
    directory,   \* the directory layout on disk
    file,   \* the JSON document on disk
    heap,   \* the Folder objects reachable from the FolderTree
    root,   \* FolderTree.root
    out,    \* what the last call returned
    err,    \* the exception the last call raised, or "none"
    log,    \* the nodes logging.error was called for during the last call
    last    \* the last call and its arguments

vars == <<directory, file, heap, root, out, err, log, last>>

None == 0

LABEL_TYPES == <<"hanging", "sticker", "outside_folder", "inside_folder", "none">>

LabelTypeSet == {LABEL_TYPES[i] : i \in 1..Len(LABEL_TYPES)}

-----------------------------------------------------------------------------
(* Bounds of the model *)

\* size of a subfolders list in the add/remove specification
MaxSubs == 2
\* entries (directories and files, the root included) of a directory layout
MaxEntries == 3
\* nodes of a JSON document
MaxDocNodes == 3

-----------------------------------------------------------------------------
(* Python str: comparison, split, join, int() *)

\* the characters the model uses, in code point order
CodePoints ==
    << " ", "+", "-", "0", "1", "2", "3", "4", "5", "6", "7", "8", "9",
       "D", "P", "V", "W", "_",
       "a", "b", "c", "d", "e", "f", "g", "i", "j", "k", "l", "m", "n", "o",
       "r", "s", "t", "u", "x" >>

Ord(c) == CHOOSE i \in 1..Len(CodePoints) : CodePoints[i] = c

Digits == {"0", "1", "2", "3", "4", "5", "6", "7", "8", "9"}

DigitValue(c) == Ord(c) - Ord("0")

\* Python's < on str: lexicographic by code point, a proper prefix is smaller
RECURSIVE StrLess(_, _)
StrLess(a, b) ==
    IF b = <<>> THEN FALSE
    ELSE IF a = <<>> THEN TRUE
    ELSE IF Head(a) # Head(b) THEN Ord(Head(a)) < Ord(Head(b))
    ELSE StrLess(Tail(a), Tail(b))

\* s.split('_'): the segments between the separators, empty ones included
RECURSIVE SplitFrom(_, _, _)
SplitFrom(s, i, cur) ==
    IF i > Len(s) THEN <<cur>>
    ELSE IF s[i] = "_" THEN <<cur>> \o SplitFrom(s, i + 1, <<>>)
    ELSE SplitFrom(s, i + 1, Append(cur, s[i]))

Split(s) == SplitFrom(s, 1, <<>>)

\* a faulty variant: the segments are joined without the blank
RECURSIVE Join_no_blank(_)
Join_no_blank(segs) ==
    IF segs = <<>> THEN <<>> ELSE segs[1] \o Join_no_blank(Tail(segs))

\* " ".join(segs)
RECURSIVE Join(_)
Join(segs) ==
    IF segs = <<>> THEN <<>>
    ELSE IF Len(segs) = 1 THEN segs[1]
    ELSE segs[1] \o <<" ">> \o Join(Tail(segs))

\* str.strip() for the blank
RECURSIVE LStrip(_)
LStrip(s) == IF s # <<>> /\ Head(s) = " " THEN LStrip(Tail(s)) ELSE s

RECURSIVE RStrip(_)
RStrip(s) ==
    IF s # <<>> /\ s[Len(s)] = " " THEN RStrip(SubSeq(s, 1, Len(s) - 1)) ELSE s

Strip(s) == RStrip(LStrip(s))

AllDigits(s) == s # <<>> /\ \A i \in 1..Len(s) : s[i] \in Digits

\* the digits of an int() literal after its optional sign
Unsigned(s) == IF s # <<>> /\ Head(s) \in {"+", "-"} THEN Tail(s) ELSE s

\* int(s) does not raise ValueError: blanks around, an optional sign, digits
\* (a segment of split('_') holds no '_', so digit grouping never occurs)
IntParses(s) == AllDigits(Unsigned(Strip(s)))

RECURSIVE DigitsValue(_)
DigitsValue(s) ==
    IF s = <<>> THEN 0
    ELSE 10 * DigitsValue(SubSeq(s, 1, Len(s) - 1)) + DigitValue(s[Len(s)])

\* the value of int(s), for s with IntParses(s)
IntValue(s) ==
    LET t == Strip(s)
    IN  IF Head(t) = "-" THEN 0 - DigitsValue(Tail(t)) ELSE DigitsValue(Unsigned(t))

\* sorted(seq, key=...): stable, ascending by key under StrLess
RECURSIVE InsertByKey(_, _, _)
InsertByKey(x, kx, s) ==
    \* s is a sequence of <<key, value>>; x goes after every element not greater
    IF s = <<>> THEN << <<kx, x>> >>
    ELSE IF StrLess(kx, Head(s)[1]) THEN << <<kx, x>> >> \o s
    ELSE <<Head(s)>> \o InsertByKey(x, kx, Tail(s))

RECURSIVE SortPairs(_, _)
SortPairs(pairs, acc) ==
    IF pairs = <<>> THEN acc
    ELSE SortPairs(Tail(pairs), InsertByKey(Head(pairs)[2], Head(pairs)[1], acc))

\* pairs: sequence of <<key, value>>; result: the values in sorted order
sorted(pairs) ==
    LET s == SortPairs(pairs, <<>>) IN [i \in 1..Len(s) |-> s[i][2]]

-----------------------------------------------------------------------------
(* class Folder *)

\* Folder.__init__ with parent left at its default
Folder(name, id, label_type) ==
    [ name       |-> name,
      id         |-> id,
      label_type |-> IF label_type = "" THEN "none" ELSE label_type,
      subfolders |-> <<>>,
      parent     |-> None ]

\* a faulty variant: the subfolder is put at the front of the list
add_subfolder_front(h, self, subfolder) ==
    [h EXCEPT ![self].subfolders = <<subfolder>> \o @,
              ![subfolder].parent = self]

add_subfolder(h, self, subfolder) ==
    [h EXCEPT ![self].subfolders = Append(@, subfolder),
              ![subfolder].parent = self]

\* list.remove(x): drops the first occurrence
RECURSIVE ListRemove(_, _)
ListRemove(s, x) ==
    IF Head(s) = x THEN Tail(s) ELSE <<Head(s)>> \o ListRemove(Tail(s), x)

InList(s, x) == \E i \in 1..Len(s) : s[i] = x

\* defined when subfolder is in the list (list.remove raises ValueError otherwise)
remove_subfolder(h, self, subfolder) ==
    [h EXCEPT ![self].subfolders = ListRemove(@, subfolder),
              ![subfolder].parent = None]

\* a faulty variant: the list is left as it is
sort_subfolders_skipped(h, self) == h

sort_subfolders(h, self) ==
    LET subs == h[self].subfolders
    IN  [h EXCEPT ![self].subfolders =
            sorted([i \in 1..Len(subs) |-> <<h[subs[i]].id, subs[i]>>])]

-----------------------------------------------------------------------------
(* Directory layouts: the inputs of generate_folder_tree_from_path *)

\* A layout entry is [name, isdir, entries]; entries is what os.listdir
\* returns, in the arbitrary order it returns it.
Dir(name, entries) == [name |-> name, isdir |-> TRUE, entries |-> entries]

File(name) == [name |-> name, isdir |-> FALSE, entries |-> <<>>]

DirNames ==
    { <<"2", "_", "a">>,                 \* 2_a
      <<"1", "0", "_", "b">>,            \* 10_b
      <<"-", "1", "_", "c">>,            \* -1_c
      <<"x">>,                           \* x
      <<"a", "_", "1">>,                 \* a_1
      <<"1", "_", "a", "_", "b">>,       \* 1_a_b
      <<"3", "_">> }                     \* 3_

FileNames == { <<"5", "_", "f">> }       \* 5_f

DistinctNames(entries) ==
    \A i, j \in 1..Len(entries) : i # j => entries[i].name # entries[j].name

RECURSIVE LayoutsOfSize(_), ListingsOfSize(_)
\* the layouts with exactly n entries, the top one included
LayoutsOfSize(n) ==
    IF n = 0 THEN {}
    ELSE { Dir(nm, es) : nm \in DirNames, es \in ListingsOfSize(n - 1) }
         \cup (IF n = 1 THEN { File(nm) : nm \in FileNames } ELSE {})

\* the directory listings whose entries hold m entries in all
ListingsOfSize(m) ==
    IF m = 0 THEN { <<>> }
    ELSE { es \in UNION { { <<t>> \o rest : t \in LayoutsOfSize(k),
                                            rest \in ListingsOfSize(m - k) }
                          : k \in 1..m } :
           DistinctNames(es) }

Documents0 == <<"0", "_", "D", "o", "c", "u", "m", "e", "n", "t", "s">>
Work1 == <<"1", "_", "W", "o", "r", "k">>
Projects12 == <<"1", "2", "_", "P", "r", "o", "j", "e", "c", "t", "s">>
Personal2 == <<"2", "_", "P", "e", "r", "s", "o", "n", "a", "l">>
Vacation24 == <<"2", "4", "_", "V", "a", "c", "a", "t", "i", "o", "n">>

WorkDir == Dir(Work1, << Dir(Projects12, <<>>) >>)
PersonalDir == Dir(Personal2, << Dir(Vacation24, <<>>) >>)

\* the example layout of the documentation, in both listing orders
ExampleLayouts ==
    { Dir(Documents0, <<WorkDir, PersonalDir>>),
      Dir(Documents0, <<PersonalDir, WorkDir>>) }

Layouts == UNION { LayoutsOfSize(n) : n \in 1..MaxEntries } \cup ExampleLayouts

NoLayout == File(<<"x">>)

-----------------------------------------------------------------------------
(* FolderTree.generate_folder_tree_from_path *)

\* Results of the recursive builders: the heap after the call and the
\* reference returned (None when the call returns None).
Ret(h, ref) == [h |-> h, ref |-> ref]

RECURSIVE _generate_folder_tree_from_path_recursive(_, _, _, _)
RECURSIVE BuildChildren(_, _, _, _)

\* the for loop over os.listdir(path)
BuildChildren(h, folder, entries, ignore_non_numbered) ==
    IF entries = <<>> THEN h
    ELSE LET sub == _generate_folder_tree_from_path_recursive(
                        h, Head(entries), ignore_non_numbered, FALSE)
             h2  == IF sub.ref # None
                    THEN add_subfolder(sub.h, folder, sub.ref)
                    ELSE sub.h
         IN  BuildChildren(h2, folder, Tail(entries), ignore_non_numbered)

_generate_folder_tree_from_path_recursive(h, path, ignore_non_numbered, isroot) ==
    IF ~path.isdir THEN Ret(h, None)
    ELSE
      LET full_name == path.name
          segs      == Split(full_name)
          numbered  == IntParses(segs[1])
      IN  IF ~numbered /\ ~(~ignore_non_numbered \/ isroot) THEN Ret(h, None)
          ELSE
            LET id     == IF numbered THEN segs[1] ELSE <<>>
                name   == IF numbered THEN Join(Tail(segs)) ELSE full_name
                folder == Len(h) + 1
                h1     == Append(h, Folder(name, id, ""))
                h2     == BuildChildren(h1, folder, path.entries, ignore_non_numbered)
            IN  Ret(sort_subfolders(h2, folder), folder)

\* generate_folder_tree_from_path; the FolderTree's previous nodes become
\* unreachable and are dropped from the heap
GenerateFromPath(ignore_non_numbered) ==
    LET r == _generate_folder_tree_from_path_recursive(
                 <<>>, directory, ignore_non_numbered, TRUE)
    IN  /\ heap' = r.h
        /\ root' = r.ref
        /\ out' = <<>>
        /\ err' = "none"
        /\ log' = <<>>
        /\ last' = [op |-> "from_path", ignore_non_numbered |-> ignore_non_numbered]
        /\ UNCHANGED <<directory, file>>

-----------------------------------------------------------------------------
(* JSON documents: the inputs of generate_folder_tree_from_file *)

\* A document node is a record; a node may lack any of its four keys.
Json(name, id, label_type, subfolders) ==
    [name |-> name, id |-> id, label_type |-> label_type, subfolders |-> subfolders]

\* the (name, id, label_type) of the nodes the documents are made of
NodeFields ==
    { <<<<"a">>, <<"2">>, "hanging">>,
      <<<<"b">>, <<"1", "0">>, "sticker">>,
      <<<<"d">>, <<"3">>, "envelope">>,      \* not one of LABEL_TYPES
      <<<<"e">>, <<>>, "">> }

\* more label types, for the documents labels are generated from
LabelNodeFields ==
    NodeFields \cup
    { <<<<"c">>, <<"1">>, "none">>,
      <<<<"f">>, <<"1">>, "outside_folder">>,
      <<<<"g">>, <<"2">>, "inside_folder">> }

RECURSIVE DocsOfSize(_, _), DocListsOfSize(_, _)
\* the documents with exactly n nodes, every node with its four keys
DocsOfSize(fields, n) ==
    IF n = 0 THEN {}
    ELSE { Json(f[1], f[2], f[3], subs) :
               f \in fields, subs \in DocListsOfSize(fields, n - 1) }

DocListsOfSize(fields, m) ==
    IF m = 0 THEN { <<>> }
    ELSE UNION { { <<t>> \o rest : t \in DocsOfSize(fields, k),
                                   rest \in DocListsOfSize(fields, m - k) }
                 : k \in 1..m }

Docs == UNION { DocsOfSize(NodeFields, n) : n \in 1..MaxDocNodes }

LabelDocs == UNION { DocsOfSize(LabelNodeFields, n) : n \in 1..MaxDocNodes }

NoDoc == Json(<<>>, <<>>, "", <<>>)

JsonKeys == {"name", "id", "label_type", "subfolders"}

WithoutKey(json, key) == [k \in DOMAIN json \ {key} |-> json[k]]

\* the documents that are json with one key of one node deleted
RECURSIVE Damaged(_)
Damaged(json) ==
    { WithoutKey(json, key) : key \in DOMAIN json }
    \cup (IF "subfolders" \in DOMAIN json
          THEN UNION { { [json EXCEPT !.subfolders[i] = d] :
                             d \in Damaged(json.subfolders[i]) }
                       : i \in 1..Len(json.subfolders) }
          ELSE {})

\* every node of the document has the four keys
RECURSIVE Complete(_)
Complete(json) ==
    /\ JsonKeys \subseteq DOMAIN json
    /\ \A i \in 1..Len(json.subfolders) : Complete(json.subfolders[i])

\* the document on disk is edited: one key of one node is deleted
DamageFile ==
    /\ Complete(file)
    /\ file' \in Damaged(file)
    /\ last' = [op |-> "edit"]
    /\ UNCHANGED <<directory, heap, root, out, err, log>>

-----------------------------------------------------------------------------
(* FolderTree.generate_folder_tree_from_file *)

\* Result of the recursive import: the heap after the call, the reference
\* returned, and whether the call raised KeyError instead of returning.
ImportRet(h, ref, raised) == [h |-> h, ref |-> ref, raised |-> raised]

RECURSIVE _generate_folder_tree_from_json_recursive(_, _)
RECURSIVE ImportChildren(_, _, _)

\* the for loop over json['subfolders']
ImportChildren(h, folder, subfolders) ==
    IF subfolders = <<>> THEN ImportRet(h, folder, FALSE)
    ELSE LET sub == _generate_folder_tree_from_json_recursive(h, Head(subfolders))
         IN  IF sub.raised THEN sub
             ELSE ImportChildren(add_subfolder(sub.h, folder, sub.ref),
                                 folder, Tail(subfolders))

_generate_folder_tree_from_json_recursive(h, json) ==
    IF {"name", "id", "label_type"} \ DOMAIN json # {}
    THEN ImportRet(h, None, TRUE)
    ELSE LET folder == Len(h) + 1
             h1     == Append(h, Folder(json.name, json.id, json.label_type))
         IN  IF "subfolders" \notin DOMAIN json
             THEN ImportRet(h1, None, TRUE)
             ELSE ImportChildren(h1, folder, json.subfolders)

\* a faulty variant: root is cleared before the document is read
ImportEffect_clears_root(json) ==
    LET r == _generate_folder_tree_from_json_recursive(<<>>, json)
    IN  IF r.raised
        THEN /\ err' = "KeyError"
             /\ heap' = <<>>
             /\ root' = None
        ELSE /\ err' = "none"
             /\ heap' = r.h
             /\ root' = r.ref

\* self.root = self._generate_folder_tree_from_json_recursive(json_dump):
\* the assignment happens only when the call returns
ImportEffect(json) ==
    LET r == _generate_folder_tree_from_json_recursive(<<>>, json)
    IN  IF r.raised
        THEN /\ err' = "KeyError"
             /\ UNCHANGED <<heap, root>>
        ELSE /\ err' = "none"
             /\ heap' = r.h
             /\ root' = r.ref

GenerateFromFile ==
    /\ ImportEffect(file)
    /\ out' = <<>>
    /\ log' = <<>>
    /\ last' = [op |-> "from_file"]
    /\ UNCHANGED <<directory, file>>

-----------------------------------------------------------------------------
(* FolderTree.generate_folder_tree_json *)

RECURSIVE _generate_folder_tree_json_recursive(_, _, _)
_generate_folder_tree_json_recursive(h, folder, sort) ==
    LET subs == h[folder].subfolders
        docs == [i \in 1..Len(subs) |->
                    _generate_folder_tree_json_recursive(h, subs[i], sort)]
    IN  Json(h[folder].name, h[folder].id, h[folder].label_type,
             IF sort
             THEN sorted([i \in 1..Len(docs) |-> <<docs[i].id, docs[i]>>])
             ELSE docs)

\* a faulty variant: the export sorts the root's own list
HeapAfterExport_in_place(h, folder, sort) ==
    IF sort THEN sort_subfolders(h, folder) ELSE h

\* what the export leaves in the heap: sorted() builds a new list for the
\* document and the Folder objects are only read
HeapAfterExport(h, folder, sort) == h

GenerateJson(sort) ==
    /\ root # None
    /\ out' = _generate_folder_tree_json_recursive(heap, root, sort)
    /\ heap' = HeapAfterExport(heap, root, sort)
    /\ err' = "none"
    /\ log' = <<>>
    /\ last' = [op |-> "json", sort |-> sort]
    /\ UNCHANGED <<directory, file, root>>

\* the document of an unsorted export read back, as in
\* generate_folder_tree_from_file
ImportExported ==
    /\ last.op = "json"
    /\ ~last.sort
    /\ ImportEffect(out)
    /\ log' = <<>>
    /\ last' = [op |-> "reimport"]
    /\ UNCHANGED <<directory, file, out>>

-----------------------------------------------------------------------------
(* FolderTree._generate_latex_tree_recursive *)

RECURSIVE _generate_latex_tree_recursive(_, _)
RECURSIVE LatexChildren(_, _)

LatexChildren(h, subs) ==
    IF subs = <<>> THEN <<>>
    ELSE _generate_latex_tree_recursive(h, Head(subs)) \o LatexChildren(h, Tail(subs))

_generate_latex_tree_recursive(h, folder) ==
    <<"[", "\\textbf{">> \o h[folder].id \o <<"} - ">> \o h[folder].name
        \o <<" \n">> \o LatexChildren(h, h[folder].subfolders) \o <<"]">>

GenerateLatex ==
    /\ root # None
    /\ out' = _generate_latex_tree_recursive(heap, root)
    /\ err' = "none"
    /\ log' = <<>>
    /\ last' = [op |-> "latex"]
    /\ UNCHANGED <<directory, file, heap, root>>

-----------------------------------------------------------------------------
(* FolderTree._generate_labels_recursively *)

\* the f-string: \customlabel{id}{parent name}{name} and a line end
hanging_label_to_latex(h, folder) ==
    IF h[folder].parent # None
    THEN <<"\\customlabel{">> \o h[folder].id \o <<"}{">>
             \o h[h[folder].parent].name \o <<"}{">> \o h[folder].name \o <<"} \n">>
    ELSE <<"\\customlabel{">> \o h[folder].id \o <<"}{">>
             \o <<"}{">> \o h[folder].name \o <<"} \n">>

\* the state the traversal threads: the label_str dict and logging.error's lines
LabelState(label_str, errors) == [label_str |-> label_str, errors |-> errors]

\* a faulty variant: a sticker line goes to the hanging buffer
LabelCase_one_buffer(h, folder, st) ==
    LET lt == h[folder].label_type
    IN  IF lt \in {"hanging", "sticker"}
        THEN LabelState([st.label_str EXCEPT !["hanging"] =
                            @ \o hanging_label_to_latex(h, folder)], st.errors)
        ELSE IF lt \in {"outside_folder", "inside_folder", "none"}
        THEN st
        ELSE LabelState(st.label_str, Append(st.errors, folder))

\* the match statement
LabelCase(h, folder, st) ==
    LET lt == h[folder].label_type
    IN  IF lt = "hanging"
        THEN LabelState([st.label_str EXCEPT !["hanging"] =
                            @ \o hanging_label_to_latex(h, folder)], st.errors)
        ELSE IF lt = "sticker"
        THEN LabelState([st.label_str EXCEPT !["sticker"] =
                            @ \o hanging_label_to_latex(h, folder)], st.errors)
        ELSE IF lt \in {"outside_folder", "inside_folder", "none"}
        THEN st
        ELSE LabelState(st.label_str, Append(st.errors, folder))

RECURSIVE _generate_labels_recursively(_, _, _)
RECURSIVE LabelChildren(_, _, _)

LabelChildren(h, subs, st) ==
    IF subs = <<>> THEN st
    ELSE LabelChildren(h, Tail(subs),
                       _generate_labels_recursively(h, Head(subs), st))

\* a faulty variant: a node of an unknown label type ends the traversal of its subtree
_generate_labels_stop_at_unknown(h, folder, st) ==
    IF h[folder].label_type \in LabelTypeSet
    THEN LabelChildren(h, h[folder].subfolders, LabelCase(h, folder, st))
    ELSE LabelCase(h, folder, st)

_generate_labels_recursively(h, folder, st) ==
    LabelChildren(h, h[folder].subfolders, LabelCase(h, folder, st))

\* label_str as generate_labels creates it
EmptyLabels == [t \in LabelTypeSet |-> <<>>]

GenerateLabels ==
    /\ root # None
    /\ LET st == _generate_labels_recursively(heap, root,
                                              LabelState(EmptyLabels, <<>>))
       IN  /\ out' = st.label_str
           /\ log' = st.errors
    /\ err' = "none"
    /\ last' = [op |-> "labels"]
    /\ UNCHANGED <<directory, file, heap, root>>

-----------------------------------------------------------------------------
(* The specifications: an empty FolderTree and what is on disk *)

EmptyTree ==
    /\ heap = <<>>
    /\ root = None
    /\ out = <<>>
    /\ err = "none"
    /\ log = <<>>
    /\ last = [op |-> "init"]

\* a FolderTree built from a directory, then exported and rendered
InitPath ==
    /\ directory \in Layouts
    /\ file = NoDoc
    /\ EmptyTree

NextPath ==
    \/ \E ignore \in BOOLEAN : GenerateFromPath(ignore)
    \/ \E sort \in BOOLEAN : GenerateJson(sort)
    \/ GenerateLatex
    \/ GenerateLabels

SpecPath == InitPath /\ [][NextPath]_vars

\* a FolderTree read from a document, exported and read back
InitFile ==
    /\ directory = NoLayout
    /\ file \in Docs
    /\ EmptyTree

NextFile ==
    \/ GenerateFromFile
    \/ DamageFile
    \/ \E sort \in BOOLEAN : GenerateJson(sort)
    \/ ImportExported
    \/ GenerateLatex
    \/ GenerateLabels

SpecFile == InitFile /\ [][NextFile]_vars

\* a FolderTree read from a document, and its labels
InitLabels ==
    /\ directory = NoLayout
    /\ file \in LabelDocs
    /\ EmptyTree

NextLabels ==
    \/ GenerateFromFile
    \/ GenerateLabels

SpecLabels == InitLabels /\ [][NextLabels]_vars

-----------------------------------------------------------------------------
(* Properties *)

Refs(h) == 1..Len(h)

Bijections(n) == { p \in [1..n -> 1..n] : \A i, j \in 1..n : p[i] = p[j] => i = j }

RECURSIVE SameTree(_, _, _, _)
\* the trees at a in h1 and at b in h2 agree on name, id, label type and on
\* their children, in order
SameTree(h1, a, h2, b) ==
    /\ h1[a].name = h2[b].name
    /\ h1[a].id = h2[b].id
    /\ h1[a].label_type = h2[b].label_type
    /\ Len(h1[a].subfolders) = Len(h2[b].subfolders)
    /\ \A i \in 1..Len(h1[a].subfolders) :
          SameTree(h1, h1[a].subfolders[i], h2, h2[b].subfolders[i])

\* C1: reading back the document of an unsorted export gives a tree equal to
\* the exported one: same name, id and label type at every node, same
\* children in the same order.
C1_RoundTrip ==
    [][ last'.op = "reimport" =>
            /\ err' = "none"
            /\ SameTree(heap, root, heap', root') ]_vars

\* a tree read back whose root has two children out of sorted order
C1_Witness ==
    /\ last.op = "reimport"
    /\ Len(heap[root].subfolders) = 2
    /\ StrLess(heap[heap[root].subfolders[2]].id, heap[heap[root].subfolders[1]].id)
    /\ \E r \in Refs(heap) : heap[r].label_type \notin LabelTypeSet

\* the ids read as integers never decrease along the sequence
NumericallyOrdered(ids) ==
    \A i, j \in 1..Len(ids) :
        (i < j /\ IntParses(ids[i]) /\ IntParses(ids[j]))
            => IntValue(ids[i]) <= IntValue(ids[j])

RECURSIVE DocNumericallyOrdered(_)
DocNumericallyOrdered(json) ==
    /\ NumericallyOrdered([i \in 1..Len(json.subfolders) |-> json.subfolders[i].id])
    /\ \A i \in 1..Len(json.subfolders) : DocNumericallyOrdered(json.subfolders[i])

\* C2: after a build from a directory, and in a sorted export, the integer
\* values of the ids of every node's children are in non-decreasing order.
C2_NumericOrder ==
    /\ (last.op = "from_path" /\ last.ignore_non_numbered) =>
          \A r \in Refs(heap) :
              NumericallyOrdered([i \in 1..Len(heap[r].subfolders) |->
                                     heap[heap[r].subfolders[i]].id])
    /\ (last.op = "json" /\ last.sort) => DocNumericallyOrdered(out)

\* where the first '_' of s is, Len(s) + 1 when it has none
FirstUnderscore(s) ==
    IF \E i \in 1..Len(s) : s[i] = "_"
    THEN CHOOSE i \in 1..Len(s) : s[i] = "_" /\ \A j \in 1..(i - 1) : s[j] # "_"
    ELSE Len(s) + 1

\* what stands before the first '_'
IdSegment(s) == SubSeq(s, 1, FirstUnderscore(s) - 1)

\* what stands after the first '_', every further '_' turned into a blank
SpacedRest(s) ==
    LET rest == SubSeq(s, FirstUnderscore(s) + 1, Len(s))
    IN  [i \in 1..Len(rest) |-> IF rest[i] = "_" THEN " " ELSE rest[i]]

Numbered(name) == IntParses(IdSegment(name))

RECURSIVE Matches(_, _, _, _)
\* the node at ref is what the naming rule gives for the directory d, and its
\* children are, in some order, what it gives for the numbered directories in d
Matches(h, ref, d, isroot) ==
    LET kept == SelectSeq(d.entries, LAMBDA e : e.isdir /\ Numbered(e.name))
        subs == h[ref].subfolders
    IN  /\ Numbered(d.name) =>
              /\ h[ref].id = IdSegment(d.name)
              /\ h[ref].name = SpacedRest(d.name)
        /\ ~Numbered(d.name) =>
              /\ isroot
              /\ h[ref].id = <<>>
              /\ h[ref].name = d.name
        /\ Len(subs) = Len(kept)
        /\ \E p \in Bijections(Len(subs)) :
              \A i \in 1..Len(subs) : Matches(h, subs[i], kept[p[i]], FALSE)

RECURSIVE TreeSize(_, _)
TreeSize(h, ref) ==
    LET subs == h[ref].subfolders
        sizes == [i \in 1..Len(subs) |-> TreeSize(h, subs[i])]
        Sum[i \in 0..Len(subs)] == IF i = 0 THEN 0 ELSE Sum[i - 1] + sizes[i]
    IN  1 + Sum[Len(subs)]

\* C3: in a build with ignore_non_numbered at its default, a directory whose
\* first '_'-segment parses as an integer becomes a node with that segment as
\* id and the other segments joined by blanks as name; the root directory
\* becomes a node with id "" and its full name otherwise; any other directory
\* is left out with everything beneath it.
C3_NameParsing ==
    (last.op = "from_path" /\ last.ignore_non_numbered /\ directory.isdir) =>
        /\ root # None
        /\ Matches(heap, root, directory, TRUE)
        /\ TreeSize(heap, root) = Len(heap)

\* a root that is not numbered, holding a directory that is not numbered
\* either and has a numbered directory beneath it
C3_Witness ==
    /\ last.op = "from_path"
    /\ last.ignore_non_numbered
    /\ directory.isdir
    /\ ~Numbered(directory.name)
    /\ \E i \in 1..Len(directory.entries) :
          LET e == directory.entries[i]
          IN  /\ e.isdir
              /\ ~Numbered(e.name)
              /\ \E j \in 1..Len(e.entries) :
                    e.entries[j].isdir /\ Numbered(e.entries[j].name)
    /\ heap[root].subfolders = <<>>

\* a build whose root has a name of three segments
C3_WitnessJoin ==
    /\ last.op = "from_path"
    /\ last.ignore_non_numbered
    /\ root # None
    /\ Len(Split(directory.name)) = 3
    /\ heap[root].name = <<"a", " ", "b">>

RECURSIVE Shape(_, _)
\* name, id and children of the tree at ref
Shape(h, ref) ==
    [ name |-> h[ref].name,
      id |-> h[ref].id,
      subfolders |-> [i \in 1..Len(h[ref].subfolders) |->
                         Shape(h, h[ref].subfolders[i])] ]

Node(name, id, subfolders) == [name |-> name, id |-> id, subfolders |-> subfolders]

ExampleChildren ==
    << Node(<<"W", "o", "r", "k">>, <<"1">>,
            << Node(<<"P", "r", "o", "j", "e", "c", "t", "s">>, <<"1", "2">>, <<>>) >>),
       Node(<<"P", "e", "r", "s", "o", "n", "a", "l">>, <<"2">>,
            << Node(<<"V", "a", "c", "a", "t", "i", "o", "n">>, <<"2", "4">>, <<>>) >>) >>

DocumentsName == <<"D", "o", "c", "u", "m", "e", "n", "t", "s">>

ExampleBuilt == last.op = "from_path" /\ directory \in ExampleLayouts

\* C4 as stated: the example layout builds to a root with id "" and name
\* "Documents", with the children Work (1) and Personal (2) in this order,
\* holding Projects (12) and Vacation (24).
C4_ExampleRootIdEmpty ==
    ExampleBuilt => Shape(heap, root) = Node(DocumentsName, <<>>, ExampleChildren)

\* C4 amended: the example layout builds to a root with id "0" and name
\* "Documents", with the children Work (1) and Personal (2) in this order,
\* holding Projects (12) and Vacation (24).
C4_ExampleRootIdZero ==
    ExampleBuilt => Shape(heap, root) = Node(DocumentsName, <<"0">>, ExampleChildren)

\* the example built from the listing that names 2_Personal first
C4_Witness ==
    /\ ExampleBuilt
    /\ directory.entries[1].name = Personal2
    /\ last.ignore_non_numbered

\* C5: reading a document in which some node lacks one of the four keys
\* raises, and the FolderTree keeps the root and the nodes it had.
C5_SchemaError ==
    [][ (last'.op = "from_file" /\ ~Complete(file)) =>
            /\ err' = "KeyError"
            /\ root' = root
            /\ heap' = heap ]_vars

\* a failed read of a document whose top node is whole, by a FolderTree that
\* held a tree
C5_Witness ==
    /\ last.op = "from_file"
    /\ err = "KeyError"
    /\ root # None
    /\ JsonKeys \subseteq DOMAIN file
    /\ ~Complete(file)

\* the label buffers of the tree with the label type of node n set to none
LabelsWithNone(n) ==
    _generate_labels_recursively([heap EXCEPT ![n].label_type = "none"], root,
                                 LabelState(EmptyLabels, <<>>)).label_str

Count(s, x) == Cardinality({i \in 1..Len(s) : s[i] = x})

\* C6: label generation does not raise; for every node whose label type is
\* none of LABEL_TYPES exactly one error is reported, and the buffers are
\* those of the same tree with that node's label type set to none (so the
\* lines of its descendants and later siblings are all there).
C6_FaultIsolation ==
    last.op = "labels" =>
        /\ err = "none"
        /\ \A n \in Refs(heap) :
              IF heap[n].label_type \in LabelTypeSet
              THEN Count(log, n) = 0
              ELSE /\ Count(log, n) = 1
                   /\ out = LabelsWithNone(n)

\* a node of unknown label type with a labelled child or a labelled later sibling
C6_Witness ==
    /\ last.op = "labels"
    /\ \E n \in Refs(heap) :
          /\ heap[n].label_type \notin LabelTypeSet
          /\ \/ \E i \in 1..Len(heap[n].subfolders) :
                   heap[heap[n].subfolders[i]].label_type = "hanging"
             \/ /\ heap[n].parent # None
                /\ LET sibs == heap[heap[n].parent].subfolders
                   IN  /\ Len(sibs) = 2
                       /\ sibs[1] = n
                       /\ heap[sibs[2]].label_type \in {"hanging", "sticker"}
          /\ out["hanging"] \o out["sticker"] # <<>>

RECURSIVE PreOrder(_, _)
\* the nodes of the tree at ref, each before its children
PreOrder(h, ref) ==
    LET subs == h[ref].subfolders
        Below[i \in 0..Len(subs)] ==
            IF i = 0 THEN <<>> ELSE Below[i - 1] \o PreOrder(h, subs[i])
    IN  <<ref>> \o Below[Len(subs)]

\* the line for (id, parent's name, name)
CustomLabel(id, parent_name, name) ==
    <<"\\customlabel{">> \o id \o <<"}{">> \o parent_name \o <<"}{">> \o name
        \o <<"} \n">>

LineOf(n) ==
    CustomLabel(heap[n].id,
                IF heap[n].parent = None THEN <<>> ELSE heap[heap[n].parent].name,
                heap[n].name)

\* the lines of the nodes of label type lt, in pre-order
LinesOf(lt) ==
    LET order == SelectSeq(PreOrder(heap, root), LAMBDA n : heap[n].label_type = lt)
        Lines[i \in 0..Len(order)] ==
            IF i = 0 THEN <<>> ELSE Lines[i - 1] \o LineOf(order[i])
    IN  Lines[Len(order)]

\* C7: the hanging buffer is the lines of the hanging nodes in pre-order, the
\* sticker buffer those of the sticker nodes, each line carrying the node's
\* id, its parent's name (empty without a parent) and its name; the other
\* buffers stay empty.
C7_LabelDispatch ==
    last.op = "labels" =>
        /\ out["hanging"] = LinesOf("hanging")
        /\ out["sticker"] = LinesOf("sticker")
        /\ \A lt \in {"outside_folder", "inside_folder", "none"} : out[lt] = <<>>

\* a hanging root, a sticker child and a child that gets no label
C7_Witness ==
    /\ last.op = "labels"
    /\ heap[root].label_type = "hanging"
    /\ \E i, j \in 1..Len(heap[root].subfolders) :
          /\ heap[heap[root].subfolders[i]].label_type = "sticker"
          /\ heap[heap[root].subfolders[j]].label_type
                 \in {"outside_folder", "inside_folder"}

\* C8: after a build with ignore_non_numbered at its default, the id of every
\* node but the root parses as a non-negative integer.
C8_NumericIds ==
    (last.op = "from_path" /\ last.ignore_non_numbered /\ root # None) =>
        \A r \in Refs(heap) \ {root} :
            IntParses(heap[r].id) /\ IntValue(heap[r].id) >= 0

\* C9: the JSON export in either sort mode, the LaTeX tree and the label
\* generation leave every node's name, id, label type, parent and children
\* as they were.
C9_ReadOnly ==
    [][ last'.op \in {"json", "latex", "labels"} =>
            (heap' = heap /\ root' = root) ]_vars

\* a sorted export whose order is not the order of the tree
C9_Witness ==
    /\ last.op = "json"
    /\ last.sort
    /\ out # _generate_folder_tree_json_recursive(heap, root, FALSE)

-----------------------------------------------------------------------------
(* Folder nodes wired by hand: add_subfolder and remove_subfolder *)

FolderRefs == {1, 2, 3}

InitFolders ==
    /\ directory = NoLayout
    /\ file = NoDoc
    /\ heap = [r \in FolderRefs |-> Folder(<<"a">>, <<"1">>, "")]
    /\ root = None
    /\ out = <<>>
    /\ err = "none"
    /\ log = <<>>
    /\ last = [op |-> "init"]

AddSubfolder(a, b) ==
    /\ Len(heap[a].subfolders) < MaxSubs
    /\ heap' = add_subfolder(heap, a, b)
    /\ err' = "none"
    /\ last' = [op |-> "add_subfolder", self |-> a, subfolder |-> b]
    /\ UNCHANGED <<directory, file, root, out, log>>

RemoveSubfolder(a, b) ==
    /\ IF InList(heap[a].subfolders, b)
       THEN heap' = remove_subfolder(heap, a, b) /\ err' = "none"
       ELSE heap' = heap /\ err' = "ValueError"
    /\ last' = [op |-> "remove_subfolder", self |-> a, subfolder |-> b]
    /\ UNCHANGED <<directory, file, root, out, log>>

NextFolders ==
    \/ \E a \in FolderRefs, b \in FolderRefs : AddSubfolder(a, b)
    \/ \E a \in FolderRefs, b \in FolderRefs : RemoveSubfolder(a, b)

SpecFolders == InitFolders /\ [][NextFolders]_vars

\* how often c occurs in n's subfolders list
Occurrences(n, c) ==
    Cardinality({i \in 1..Len(heap[n].subfolders) : heap[n].subfolders[i] = c})

\* C10: every node that occurs in some node n's subfolders list occurs in
\* exactly one list, exactly once, and its parent is n; a node that occurs in
\* no list has no parent.
C10_ExclusiveOwnership ==
    \A c \in FolderRefs :
        /\ \A n \in FolderRefs :
              Occurrences(n, c) > 0 =>
                  /\ Occurrences(n, c) = 1
                  /\ \A m \in FolderRefs \ {n} : Occurrences(m, c) = 0
                  /\ heap[c].parent = n
        /\ (\A n \in FolderRefs : Occurrences(n, c) = 0) => heap[c].parent = None

====
